---- MODULE Spec2Model ----
(***************************************************************************)
(* Model of the financial-data-explorer backend:                           *)
(*   backend/src/data_processing.py  normalize_series,                     *)
(*                                   calculate_rolling_correlation         *)
(*   backend/src/app.py              list_datasets, get_dataset_data,      *)
(*                                   get_rolling_correlation               *)
(*   backend/src/setup_database.py   load_fred_csv_to_db                   *)
(*                                                                         *)
(* A pandas DataFrame with one data column is a record                     *)
(*   [index |-> kind of its index, rows |-> <<date, value>> pairs].        *)
(* Calendar days are the day numbers of January 2020.  Float values are    *)
(* exact rationals <<numerator, denominator>> in lowest terms, so that     *)
(* division and the Pearson coefficient are computed, not assumed; float   *)
(* rounding is outside the model.                                          *)
(***************************************************************************)
EXTENDS Integers, Sequences, FiniteSets, TLC

\* ------------------------------------------------------------- bounds
MaxDate == 3
MaxWindow == 3

RawValues == {-1, 0, 2}
IndexKinds == {"datetime", "str", "bad"}
Methods == {"index_100", "pct_change", "zscore"}

\* ------------------------------------------------- exact arithmetic
Abs(n) == IF n < 0 THEN -n ELSE n

Sign(n) == IF n < 0 THEN -1 ELSE IF n > 0 THEN 1 ELSE 0

RECURSIVE GCD(_, _)
GCD(a, b) == IF b = 0 THEN a ELSE GCD(b, a % b)

\* The rational n/d (d # 0) in lowest terms with a positive denominator.
Rat(n, d) ==
    LET g == GCD(Abs(n), Abs(d))
        s == IF d < 0 THEN -1 ELSE 1
    IN  <<s * (n \div g), s * (d \div g)>>

RatInt(n) == <<n, 1>>
RatAdd(p, q) == Rat(p[1] * q[2] + q[1] * p[2], p[2] * q[2])
RatSub(p, q) == Rat(p[1] * q[2] - q[1] * p[2], p[2] * q[2])
RatMul(p, q) == Rat(p[1] * q[1], p[2] * q[2])
RatDiv(p, q) == Rat(p[1] * q[2], p[2] * q[1])
RatIsZero(p) == p[1] = 0

\* A correlation coefficient r is kept as <<sign of r, r^2>>; NaN and the
\* infinities of float division by zero have a zero denominator.
NaN == <<0, <<0, 0>>>>
Inf(s) == <<s, <<1, 0>>>>
IsNaN(c) == c = NaN

\* ----------------------------------------------------------- frames
RECURSIVE SeriesFrom(_)
\* Every strictly date-increasing sequence of observations on days >= d.
SeriesFrom(d) ==
    IF d > MaxDate THEN {<<>>}
    ELSE LET rest == SeriesFrom(d + 1)
         IN  rest \cup {<<<<d, RatInt(v)>>>> \o s : v \in RawValues, s \in rest}

AllSeries == SeriesFrom(1)

Frame(kind, rows) == [index |-> kind, rows |-> rows]
NoFrame == Frame("none", <<>>)

DateSet(rows) == {rows[i][1] : i \in 1..Len(rows)}
ValueAt(rows, d) == (CHOOSE i \in 1..Len(rows) : rows[i][1] = d)

\* ------------------------------------------- data_processing.py
\* What a call leaves behind: the returned value (ret.kind is "frame",
\* "none" for None, or "raise" with the exception in ret.exc), whether the
\* returned object is the i-th argument object itself (ret_is_arg = i, 0 when
\* it is a new object or None), the argument objects as they are after the
\* call, and the merged frame when one was built.
Outcome(kind, value, exc, isArg, after, combined) ==
    [ret |-> [kind |-> kind, value |-> value, exc |-> exc],
     ret_is_arg |-> isArg, args_after |-> after, combined |-> combined]

\* pd.to_datetime(df.index) succeeds on date strings and raises on an index
\* that holds no dates.
ToDatetimeOk(df) == df.index \in {"datetime", "str"}

\* Faulty variant of IndexTo100: the base observation is left out of the
\* result.
IndexTo100_DropsBase(df, first_value) ==
    Frame(df.index,
          [i \in 1..(Len(df.rows) - 1) |->
              <<df.rows[i + 1][1],
                RatMul(RatDiv(df.rows[i + 1][2], first_value), RatInt(100))>>])

\* Faulty variant of IndexTo100: the multiplication by 100 is forgotten.
IndexTo100_NoScale(df, first_value) ==
    Frame(df.index,
          [i \in 1..Len(df.rows) |->
              <<df.rows[i][1], RatDiv(df.rows[i][2], first_value)>>])

\* (df / first_value) * 100, a new frame on df's index.
IndexTo100(df, first_value) ==
    Frame(df.index,
          [i \in 1..Len(df.rows) |->
              <<df.rows[i][1],
                RatMul(RatDiv(df.rows[i][2], first_value), RatInt(100))>>])

\* Faulty variant of UnknownMethod: an unknown method returns None.
UnknownMethod_ReturnsNone(df) == Outcome("none", NoFrame, "", 0, <<df>>, <<>>)

\* The else branch: an unknown method is warned about and df itself returned.
UnknownMethod(df) == Outcome("frame", df, "", 1, <<df>>, <<>>)

normalize_series(df, method) ==
    IF df.index # "datetime" /\ ~ToDatetimeOk(df)
    THEN Outcome("frame", df, "", 1, <<df>>, <<>>)
    ELSE LET df2 == IF df.index # "datetime"
                    THEN [df EXCEPT !.index = "datetime"]
                    ELSE df
         IN  IF method = "index_100"
             THEN IF Len(df2.rows) = 0
                  THEN Outcome("raise", NoFrame, "IndexError", 0, <<df2>>, <<>>)
                  ELSE LET first_value == df2.rows[1][2]
                       IN  IF RatIsZero(first_value)
                           THEN Outcome("frame", df2, "", 1, <<df2>>, <<>>)
                           ELSE Outcome("frame", IndexTo100(df2, first_value),
                                        "", 0, <<df2>>, <<>>)
             ELSE UnknownMethod(df2)

\* Faulty variant of MergeInner: how='left', df2's missing values filled
\* with 0.
MergeInner_Left(df1, df2) ==
    [i \in 1..Len(df1.rows) |->
        <<df1.rows[i][1], df1.rows[i][2],
          IF df1.rows[i][1] \in DateSet(df2.rows)
          THEN df2.rows[ValueAt(df2.rows, df1.rows[i][1])][2]
          ELSE RatInt(0)>>]

\* pd.merge(df1, df2, left_index=True, right_index=True, how='inner'): the
\* rows <<date, df1's value, df2's value>> of the dates in both indexes, in
\* the order of the left index.
MergeInner(df1, df2) ==
    LET InRight(r) == r[1] \in DateSet(df2.rows)
        kept == SelectSeq(df1.rows, InRight)
    IN  [i \in 1..Len(kept) |->
            <<kept[i][1], kept[i][2],
              df2.rows[ValueAt(df2.rows, kept[i][1])][2]>>]

RECURSIVE RatSum(_)
RatSum(s) == IF s = <<>> THEN RatInt(0) ELSE RatAdd(Head(s), RatSum(Tail(s)))

\* Faulty variant of PearsonWindow: the covariance is divided by var(x)
\* alone, the regression slope of y on x.
PearsonWindow_Slope(win) ==
    LET n == Len(win)
        xs == [i \in 1..n |-> win[i][2]]
        ys == [i \in 1..n |-> win[i][3]]
        Mean(s) == RatDiv(RatSum(s), RatInt(n))
        Var(s) == RatDiv(RatSum([i \in 1..n |->
                                   RatMul(RatSub(s[i], Mean(s)),
                                          RatSub(s[i], Mean(s)))]),
                         RatInt(n - 1))
        mean_x_y == Mean([i \in 1..n |-> RatMul(xs[i], ys[i])])
        numerator == RatMul(RatSub(mean_x_y, RatMul(Mean(xs), Mean(ys))),
                            Rat(n, n - 1))
        prod == RatMul(Var(xs), Var(xs))
    IN  IF RatIsZero(prod)
        THEN IF RatIsZero(numerator) THEN NaN ELSE Inf(Sign(numerator[1]))
        ELSE <<Sign(numerator[1]), RatDiv(RatMul(numerator, numerator), prod)>>

\* One full window of pandas' rolling corr (ddof = 1):
\*   numerator   = (mean(x*y) - mean(x)*mean(y)) * n/(n-1)
\*   denominator = sqrt(var(x) * var(y))
PearsonWindow(win) ==
    LET n == Len(win)
        xs == [i \in 1..n |-> win[i][2]]
        ys == [i \in 1..n |-> win[i][3]]
        Mean(s) == RatDiv(RatSum(s), RatInt(n))
        Var(s) == RatDiv(RatSum([i \in 1..n |->
                                   RatMul(RatSub(s[i], Mean(s)),
                                          RatSub(s[i], Mean(s)))]),
                         RatInt(n - 1))
        mean_x_y == Mean([i \in 1..n |-> RatMul(xs[i], ys[i])])
        numerator == RatMul(RatSub(mean_x_y, RatMul(Mean(xs), Mean(ys))),
                            Rat(n, n - 1))
        prod == RatMul(Var(xs), Var(ys))
    IN  IF RatIsZero(prod)
        THEN IF RatIsZero(numerator) THEN NaN ELSE Inf(Sign(numerator[1]))
        ELSE <<Sign(numerator[1]), RatDiv(RatMul(numerator, numerator), prod)>>

\* Faulty variant of RollingCorrAt: the first full window is taken to be
\* incomplete.
RollingCorrAt_OffByOne(combined, window, i) ==
    IF i <= window \/ window < 2
    THEN NaN
    ELSE PearsonWindow(SubSeq(combined, i - window + 1, i))

\* combined.iloc[:, 0].rolling(window).corr(combined.iloc[:, 1]) at row i:
\* NaN until `window` rows have accumulated (min_periods = window), and NaN
\* for a window below 2, where the sample variance is undefined.
RollingCorrAt(combined, window, i) ==
    IF i < window \/ window < 2
    THEN NaN
    ELSE PearsonWindow(SubSeq(combined, i - window + 1, i))

\* Faulty variant of DropNa: the NaN rows are kept.
DropNa_KeepsAll(rows) == rows

\* to_frame(...) then dropna(inplace=True) on the new frame.
DropNa(rows) ==
    LET NotNa(r) == ~IsNaN(r[2])
    IN  SelectSeq(rows, NotNa)

calculate_rolling_correlation(df1, df2, window) ==
    IF df1.index # "datetime" \/ df2.index # "datetime"
    THEN Outcome("none", NoFrame, "", 0, <<df1, df2>>, <<>>)
    ELSE LET combined == MergeInner(df1, df2)
         IN  IF window < 0
             THEN Outcome("raise", NoFrame, "ValueError", 0, <<df1, df2>>,
                          combined)
             ELSE LET rolling_corr ==
                          [i \in 1..Len(combined) |->
                              <<combined[i][1],
                                RollingCorrAt(combined, window, i)>>]
                  IN  Outcome("frame", Frame("datetime", DropNa(rolling_corr)),
                              "", 0, <<df1, df2>>, combined)

\* ------------------------------------------------------------ state
VARIABLES
    engine,            \* app.py's module-level engine: "ok", or "none" (None)
    series_catalog,    \* rows of table series_catalog
    time_series_data,  \* rows of table time_series_data
    request,           \* the last HTTP request
    response,          \* the answer to it
    session,           \* database sessions the last request opened and closed
    call               \* the last call of a data_processing function

vars == <<engine, series_catalog, time_series_data, request, response,
          session, call>>

Call(fn, args, method, window, out) ==
    [fn |-> fn, args |-> args, method |-> method, window |-> window,
     ret |-> out.ret, ret_is_arg |-> out.ret_is_arg,
     args_after |-> out.args_after, combined |-> out.combined]

NoCall == Call("none", <<>>, "", 0, Outcome("none", NoFrame, "", 0, <<>>, <<>>))
\* A query parameter is <<>> when the request does not carry it and <<value>>
\* when it does.
NoRequest == [route |-> "none", dataset_name |-> "", transform |-> <<>>,
              series1 |-> <<>>, series2 |-> <<>>, window |-> <<>>]
NoResponse == [status |-> 0, error |-> "", body |-> <<>>]
NoSession == [opened |-> 0, closed |-> 0]

Init ==
    /\ engine \in {"ok", "none"}
    /\ series_catalog = {}
    /\ time_series_data = {}
    /\ request = NoRequest
    /\ response = NoResponse
    /\ session = NoSession
    /\ call = NoCall

\* ----------------------------------- direct calls of the two functions
\* The functions are also called directly, as the module's own example usage
\* does: a behaviour of SpecProcessing starts with one call about to be made,
\* on any frames of the bounded input sets, and makes it.
Frames == {Frame(k, rows) : k \in IndexKinds, rows \in AllSeries}
CorrFrames ==
    {Frame("datetime", rows) : rows \in AllSeries}
        \cup {Frame(k, rows) : k \in {"str", "bad"},
                               rows \in {r \in AllSeries : Len(r) <= 1}}
Windows == (-1)..MaxWindow

Pending == Outcome("pending", NoFrame, "", 0, <<>>, <<>>)

\* The call about to be made is one of normalize_series(df, method) and
\* calculate_rolling_correlation(df1, df2, window).
PendingCall(c) ==
    \/ \E df \in Frames, method \in Methods :
          c = Call("normalize_series", <<df>>, method, 0, Pending)
    \/ \E df1 \in CorrFrames, df2 \in CorrFrames, window \in Windows :
          c = Call("calculate_rolling_correlation", <<df1, df2>>, "", window,
                   Pending)

InitProcessing ==
    /\ engine = "ok"
    /\ series_catalog = {}
    /\ time_series_data = {}
    /\ request = NoRequest
    /\ response = NoResponse
    /\ session = NoSession
    /\ PendingCall(call)

NormalizeCall ==
    /\ call.fn = "normalize_series"
    /\ call.ret.kind = "pending"
    /\ call' = Call(call.fn, call.args, call.method, call.window,
                    normalize_series(call.args[1], call.method))
    /\ UNCHANGED <<engine, series_catalog, time_series_data, request,
                   response, session>>

CorrelationCall ==
    /\ call.fn = "calculate_rolling_correlation"
    /\ call.ret.kind = "pending"
    /\ call' = Call(call.fn, call.args, call.method, call.window,
                    calculate_rolling_correlation(call.args[1], call.args[2],
                                                  call.window))
    /\ UNCHANGED <<engine, series_catalog, time_series_data, request,
                   response, session>>

NextProcessing == NormalizeCall \/ CorrelationCall

SpecProcessing == InitProcessing /\ [][NextProcessing]_vars

\* ---------------------------------------------------- the database
Names == {"A", "B"}
CsvValues == {0, 2}

\* SELECT observation_date, value ... WHERE series_name = name
\* ORDER BY observation_date, as a list of <<date, value>> tuples.
RECURSIVE OrderByDate(_)
OrderByDate(rows) ==
    IF rows = {} THEN <<>>
    ELSE LET first == CHOOSE r \in rows :
                          \A q \in rows : r.observation_date <= q.observation_date
         IN  <<<<first.observation_date, first.value>>>>
                 \o OrderByDate(rows \ {first})

SelectSeries(name) ==
    OrderByDate({r \in time_series_data : r.series_name = name})

\* pd.DataFrame(tuples, columns=['date', name]) with 'date' made the
\* DatetimeIndex.
FrameOfTuples(tuples) == Frame("datetime", tuples)

\* ------------------------------------------------ setup_database.py
\* The CSV file a load finds: missing, with two data columns, or with one
\* data column and the observations `rows` (possibly none).
CsvFiles ==
    {[kind |-> "missing", rows |-> <<>>], [kind |-> "two_columns", rows |-> <<>>]}
        \cup {[kind |-> "ok", rows |-> rows] :
                rows \in {s \in AllSeries :
                            \A i \in 1..Len(s) : s[i][2][1] \in CsvValues}}

\* Where a load can fail with a database error: nowhere, at the catalog
\* lookup, at either insert, or at the commit.
FailPoints == {"none", "select", "insert_data", "insert_catalog", "commit"}

\* Faulty variant of Transaction: every statement is committed as it is
\* executed.
Transaction_Autocommit(fail_at, data, catalog) ==
    [data |-> IF fail_at = "insert_data" THEN {} ELSE data,
     catalog |-> IF fail_at \in {"insert_data", "insert_catalog"}
                 THEN {} ELSE catalog]

\* The second connection: both inserts are executed on it and become
\* durable at connection.commit(); an exception leaves the `with` block
\* before the commit and the connection rolls both back.
Transaction(fail_at, data, catalog) ==
    IF fail_at = "none"
    THEN [data |-> data, catalog |-> catalog]
    ELSE [data |-> {}, catalog |-> {}]

\* load_fred_csv_to_db(file_name) for the file name.csv.  insert().values([])
\* of a file without observations is an INSERT of defaults, which the NOT
\* NULL columns reject, so nothing is committed.
load_fred_csv_to_db(name, csv, fail_at) ==
    IF fail_at = "select" \/ \E c \in series_catalog : c.name = name
    THEN UNCHANGED <<series_catalog, time_series_data>>
    ELSE IF csv.kind # "ok" \/ Len(csv.rows) = 0
         THEN UNCHANGED <<series_catalog, time_series_data>>
         ELSE LET done == Transaction(fail_at,
                              {[series_name |-> name,
                                observation_date |-> csv.rows[i][1],
                                value |-> csv.rows[i][2]] :
                                   i \in 1..Len(csv.rows)},
                              {[name |-> name, file_name |-> name \o ".csv"]})
              IN  /\ time_series_data' = time_series_data \cup done.data
                  /\ series_catalog' = series_catalog \cup done.catalog

\* The server is idle: no request is being answered.  Loads and requests
\* start from an idle server.
Idle == request = NoRequest

\* The file is read only after the catalog lookup found the series absent.
FilesRead(name, fail_at) ==
    IF fail_at = "select" \/ \E c \in series_catalog : c.name = name
    THEN {[kind |-> "missing", rows |-> <<>>]}
    ELSE CsvFiles

LoadCsv ==
    \E name \in Names, fail_at \in FailPoints :
        \E csv \in FilesRead(name, fail_at) :
            /\ Idle
            /\ load_fred_csv_to_db(name, csv, fail_at)
            /\ UNCHANGED <<engine, request, response, session, call>>

\* A behaviour of SpecLoader is the loader run, any number of times, over a
\* data directory whose files do not change: call.files is the directory,
\* call.file_name and call.fail_at the latest load, call.before the tables
\* as that load found them.
LoaderRun(files, file_name, fail_at, before) ==
    [fn |-> "load_all_datasets_from_files", files |-> files,
     file_name |-> file_name, fail_at |-> fail_at, before |-> before]

InitLoader ==
    /\ engine = "ok"
    /\ series_catalog = {}
    /\ time_series_data = {}
    /\ request = NoRequest
    /\ response = NoResponse
    /\ session = NoSession
    /\ \E files \in [Names -> CsvFiles] :
          call = LoaderRun(files, "", "none",
                           [series_catalog |-> {}, time_series_data |-> {}])

LoadFile ==
    \E name \in Names, fail_at \in FailPoints :
        /\ call.fn = "load_all_datasets_from_files"
        /\ load_fred_csv_to_db(name, call.files[name], fail_at)
        /\ call' = LoaderRun(call.files, name, fail_at,
                             [series_catalog |-> series_catalog,
                              time_series_data |-> time_series_data])
        /\ UNCHANGED <<engine, request, response, session>>

NextLoader == LoadFile

SpecLoader == InitLoader /\ [][NextLoader]_vars

\* ------------------------------------------------------------ app.py
\* request.args.get(key, default), and Python's `not value` on it.
ArgsGet(arg, default) == IF arg = <<>> THEN default ELSE arg[1]
Falsy(arg) == arg = <<>> \/ arg[1] = ""

\* date.strftime('%Y-%m-%d') of day d of January 2020.
FormatDate(d) == "2020-01-" \o (IF d < 10 THEN "0" ELSE "") \o ToString(d)

\* df.reset_index(), the date column formatted, to_dict('records').
ToRecords(df) ==
    [i \in 1..Len(df.rows) |->
        [date |-> FormatDate(df.rows[i][1]), value |-> df.rows[i][2]]]

Response(status, error, body) ==
    [status |-> status, error |-> error, body |-> body]

\* int(window_str): an optional minus sign and decimal digits, anything else
\* is a ValueError.
DigitValue == [c \in {"0", "1", "2", "3", "4", "5", "6", "7", "8", "9"} |->
                  CASE c = "0" -> 0 [] c = "1" -> 1 [] c = "2" -> 2
                    [] c = "3" -> 3 [] c = "4" -> 4 [] c = "5" -> 5
                    [] c = "6" -> 6 [] c = "7" -> 7 [] c = "8" -> 8
                    [] c = "9" -> 9]

RECURSIVE DigitsValue(_)
DigitsValue(chars) ==
    IF chars = <<>> THEN 0
    ELSE 10 * DigitsValue(SubSeq(chars, 1, Len(chars) - 1))
            + DigitValue[chars[Len(chars)]]

IsDigits(chars) ==
    Len(chars) > 0 /\ \A i \in 1..Len(chars) : chars[i] \in DOMAIN DigitValue

ParseInt(chars) ==
    IF IsDigits(chars)
    THEN [ok |-> TRUE, value |-> DigitsValue(chars)]
    ELSE IF Len(chars) > 1 /\ chars[1] = "-" /\ IsDigits(Tail(chars))
         THEN [ok |-> TRUE, value |-> -DigitsValue(Tail(chars))]
         ELSE [ok |-> FALSE, value |-> 0]

\* What a handler leaves behind: its response, the sessions it opened and
\* closed, and the data_processing call it made, if any.
Handled(resp, sess, made) == [response |-> resp, session |-> sess, call |-> made]
\* Faulty variant of OpenedAndClosed: the handler has no finally clause.
Opened_NeverClosed == [opened |-> 1, closed |-> 0]
\* db = SessionLocal() followed by try ... finally: db.close().
OpenedAndClosed == [opened |-> 1, closed |-> 1]

\* The orders in which a SELECT without ORDER BY may return the rows.
Orders(S) ==
    {seq \in UNION {[1..n -> S] : n \in {Cardinality(S)}} :
        \A i, j \in 1..Cardinality(S) : i # j => seq[i] # seq[j]}

\* list_datasets(); `fault` is db.execute raising SQLAlchemyError.
list_datasets(fault, order) ==
    IF engine = "none"
    THEN Handled(Response(500, "Database connection failed", <<>>),
                 NoSession, NoCall)
    ELSE IF fault
         THEN Handled(Response(500, "Error fetching dataset list from database",
                               <<>>), OpenedAndClosed, NoCall)
         ELSE Handled(Response(200, "", order), OpenedAndClosed, NoCall)

\* get_dataset_data(dataset_name) with the query parameter transform.
get_dataset_data(dataset_name, transform, fault) ==
    IF engine = "none"
    THEN Handled(Response(500, "Database connection failed", <<>>),
                 NoSession, NoCall)
    ELSE IF fault
    THEN Handled(Response(500, "Error fetching data from database", <<>>),
                 OpenedAndClosed, NoCall)
    ELSE IF ~\E c \in series_catalog : c.name = dataset_name
    THEN Handled(Response(404, "not found in catalog", <<>>),
                 OpenedAndClosed, NoCall)
    ELSE LET data_tuples == SelectSeries(dataset_name)
             df == FrameOfTuples(data_tuples)
             transform_method == ArgsGet(transform, "")
             out == normalize_series(df, transform_method)
             made == Call("normalize_series", <<df>>, transform_method, 0, out)
         IN  IF Len(data_tuples) = 0
             THEN Handled(Response(404, "No data found for dataset", <<>>),
                          OpenedAndClosed, NoCall)
             ELSE IF Falsy(transform)
             THEN Handled(Response(200, "", ToRecords(df)),
                          OpenedAndClosed, NoCall)
             ELSE IF out.ret.kind = "raise"
             THEN Handled(Response(500, "An internal error occurred", <<>>),
                          OpenedAndClosed, made)
             ELSE IF out.ret.kind = "none"
             THEN Handled(Response(400, "Transformation method failed or is not supported",
                                   <<>>), OpenedAndClosed, made)
             ELSE Handled(Response(200, "", ToRecords(out.ret.value)),
                          OpenedAndClosed, made)

DefaultWindowToken == <<"3", "0">>

\* Faulty variant of WindowRefused: a window of 1 is let through.
WindowRefused_OnlyNonPositive(window) == window <= 0

\* `if window <= 1`: the window is refused.
WindowRefused(window) == window <= 1

\* Faulty variant of get_rolling_correlation: the window is validated with
\* the other parameters, before the data of the series is looked up.
get_rolling_correlation_WindowFirst(series1, series2, window_arg, fault) ==
    LET window_str == ArgsGet(window_arg, DefaultWindowToken)
        parsed == ParseInt(window_str)
    IN  IF engine = "none"
        THEN Handled(Response(500, "Database connection failed", <<>>),
                     NoSession, NoCall)
        ELSE IF Falsy(series1) \/ Falsy(series2)
        THEN Handled(Response(400, "Missing required parameters: series1 and series2",
                              <<>>), NoSession, NoCall)
        ELSE IF ~parsed.ok
        THEN Handled(Response(400, "Invalid window size parameter. Must be an integer.",
                              <<>>), NoSession, NoCall)
        ELSE IF WindowRefused(parsed.value)
        THEN Handled(Response(400, "Window size must be a positive integer greater than 1",
                              <<>>), NoSession, NoCall)
        ELSE IF fault
        THEN Handled(Response(500, "Error fetching data from database for correlation",
                              <<>>), OpenedAndClosed, NoCall)
        ELSE LET df1 == FrameOfTuples(SelectSeries(series1[1]))
                 df2 == FrameOfTuples(SelectSeries(series2[1]))
                 out == calculate_rolling_correlation(df1, df2, parsed.value)
                 made == Call("calculate_rolling_correlation", <<df1, df2>>,
                              "", parsed.value, out)
             IN  IF Len(df1.rows) = 0 \/ Len(df2.rows) = 0
                 THEN Handled(Response(404, "Data not found for one or both datasets",
                                       <<>>), OpenedAndClosed, NoCall)
                 ELSE IF out.ret.kind = "raise"
                 THEN Handled(Response(500, "An internal error occurred", <<>>),
                              OpenedAndClosed, made)
                 ELSE IF out.ret.kind = "none"
                 THEN Handled(Response(500, "Could not calculate rolling correlation. Data might be incompatible or window too large.",
                                       <<>>), OpenedAndClosed, made)
                 ELSE Handled(Response(200, "", ToRecords(out.ret.value)),
                              OpenedAndClosed, made)

\* get_rolling_correlation() with the query parameters series1, series2 and
\* window.
get_rolling_correlation(series1, series2, window_arg, fault) ==
    IF engine = "none"
    THEN Handled(Response(500, "Database connection failed", <<>>),
                 NoSession, NoCall)
    ELSE IF Falsy(series1) \/ Falsy(series2)
    THEN Handled(Response(400, "Missing required parameters: series1 and series2",
                          <<>>), NoSession, NoCall)
    ELSE IF fault
    THEN Handled(Response(500, "Error fetching data from database for correlation",
                          <<>>), OpenedAndClosed, NoCall)
    ELSE LET data1_tuples == SelectSeries(series1[1])
             data2_tuples == SelectSeries(series2[1])
             df1 == FrameOfTuples(data1_tuples)
             df2 == FrameOfTuples(data2_tuples)
             window_str == ArgsGet(window_arg, DefaultWindowToken)
             parsed == ParseInt(window_str)
             window == parsed.value
             out == calculate_rolling_correlation(df1, df2, window)
             made == Call("calculate_rolling_correlation", <<df1, df2>>, "",
                          window, out)
         IN  IF Len(data1_tuples) = 0 \/ Len(data2_tuples) = 0
             THEN Handled(Response(404, "Data not found for one or both datasets",
                                   <<>>), OpenedAndClosed, NoCall)
             ELSE IF ~parsed.ok
             THEN Handled(Response(400, "Invalid window size parameter. Must be an integer.",
                                   <<>>), OpenedAndClosed, NoCall)
             ELSE IF WindowRefused(window)
             THEN Handled(Response(400, "Window size must be a positive integer greater than 1",
                                   <<>>), OpenedAndClosed, NoCall)
             ELSE IF out.ret.kind = "raise"
             THEN Handled(Response(500, "An internal error occurred", <<>>),
                          OpenedAndClosed, made)
             ELSE IF out.ret.kind = "none"
             THEN Handled(Response(500, "Could not calculate rolling correlation. Data might be incompatible or window too large.",
                                   <<>>), OpenedAndClosed, made)
             ELSE Handled(Response(200, "", ToRecords(out.ret.value)),
                          OpenedAndClosed, made)

\* ------------------------------------------------------- requests
Option(S) == {<<>>} \cup {<<v>> : v \in S}
Transforms == {"", "index_100", "zscore"}
WindowTokens ==
    {<<"2", ".", "5">>, <<"-", "1">>}
        \cup {<<c>> : c \in {d \in DOMAIN DigitValue : DigitValue[d] <= MaxWindow}}

Answer(h) ==
    /\ response' = h.response
    /\ session' = h.session
    /\ call' = h.call
    /\ UNCHANGED <<engine, series_catalog, time_series_data>>

ListDatasets ==
    \E fault \in BOOLEAN, order \in Orders({c.name : c \in series_catalog}) :
        /\ Idle
        /\ request' = [NoRequest EXCEPT !.route = "list_datasets"]
        /\ Answer(list_datasets(fault, order))

GetDatasetData ==
    \E dataset_name \in Names, transform \in Option(Transforms),
       fault \in BOOLEAN :
        /\ Idle
        /\ request' = [NoRequest EXCEPT !.route = "get_dataset_data",
                                        !.dataset_name = dataset_name,
                                        !.transform = transform]
        /\ Answer(get_dataset_data(dataset_name, transform, fault))

GetRollingCorrelation ==
    \E series1 \in Option(Names), series2 \in Option(Names),
       window_arg \in Option(WindowTokens), fault \in BOOLEAN :
        /\ Idle
        /\ request' = [NoRequest EXCEPT !.route = "get_rolling_correlation",
                                        !.series1 = series1,
                                        !.series2 = series2,
                                        !.window = window_arg]
        /\ Answer(get_rolling_correlation(series1, series2, window_arg, fault))

\* The response is sent and the server is idle again.
Deliver ==
    /\ ~Idle
    /\ request' = NoRequest
    /\ response' = NoResponse
    /\ session' = NoSession
    /\ call' = NoCall
    /\ UNCHANGED <<engine, series_catalog, time_series_data>>

Next == LoadCsv \/ ListDatasets \/ GetDatasetData \/ GetRollingCorrelation
            \/ Deliver

Spec == Init /\ [][Next]_vars

\* ------------------------------------------------- data_loader.py
\* The frequency tokens of the FRED service, "" for a call that gives none
\* and "x" for a token the service does not know.
Frequencies == {"", "d", "w", "m", "q", "a", "x"}

RECURSIVE ObservationsFrom(_)
\* The "observations" lists the service may answer with, on days >= d: each
\* observation is <<date, value>>, the value <<>> for the missing marker '.'
\* and <<v>> for the text of the number v.
ObservationsFrom(d) ==
    IF d > MaxDate THEN {<<>>}
    ELSE LET rest == ObservationsFrom(d + 1)
         IN  rest \cup {<<<<d, v>>>> \o s : v \in Option(CsvValues), s \in rest}

\* What _fred_api returns: None after a failed request, a document without
\* "observations", or a document with them.  The service is not part of the
\* program, so every answer is possible for every request.
FredAnswers ==
    {[kind |-> k, observations |-> <<>>] : k \in {"none", "no_observations"}}
        \cup {[kind |-> "observations", observations |-> o] :
                 o \in ObservationsFrom(1)}

\* Faulty variant of FredParams: the frequency is not forwarded.
FredParams_NoFrequency(series_id, start, end, frequency) ==
    [series_id |-> <<series_id>>, observation_start |-> start,
     observation_end |-> end, frequency |-> <<>>]

\* The request parameters: series_id always, the others only when given.
FredParams(series_id, start, end, frequency) ==
    [series_id |-> <<series_id>>, observation_start |-> start,
     observation_end |-> end,
     frequency |-> IF frequency # "" THEN <<frequency>> ELSE <<>>]

\* .query("value != '.'"): the observations that carry a number.
DropMissing(observations) == SelectSeq(observations, LAMBDA o : o[2] # <<>>)

\* The call sends params and turns the answer data into a frame indexed by
\* date, or None when there is no payload or no observation is left.
fetch_series_observations_from_api(series_id, start, end, frequency, data) ==
    LET kept == DropMissing(data.observations)
        df == Frame("datetime",
                    [i \in 1..Len(kept) |->
                        <<kept[i][1], RatInt(kept[i][2][1])>>])
    IN  [params |-> FredParams(series_id, start, end, frequency),
         ret |-> IF data.kind # "observations" \/ Len(df.rows) = 0
                 THEN [kind |-> "none", value |-> NoFrame, exc |-> ""]
                 ELSE [kind |-> "frame", value |-> df, exc |-> ""]]

\* A behaviour of SpecFetch is one call of the function: the arguments and
\* the answer the service will give are chosen at the start.
FetchCall(series_id, start, end, frequency, data, params, ret) ==
    [fn |-> "fetch_series_observations_from_api",
     args |-> [series_id |-> series_id, start |-> start, end |-> end,
               frequency |-> frequency],
     data |-> data, params |-> params, ret |-> ret]

InitFetch ==
    /\ engine = "none"
    /\ series_catalog = {}
    /\ time_series_data = {}
    /\ request = NoRequest
    /\ response = NoResponse
    /\ session = NoSession
    /\ \E series_id \in Names, start \in Option({1}), end \in Option({MaxDate}),
          frequency \in Frequencies, data \in FredAnswers :
          call = FetchCall(series_id, start, end, frequency, data,
                           <<>>, Pending.ret)

Fetch ==
    /\ call.fn = "fetch_series_observations_from_api"
    /\ call.ret.kind = "pending"
    /\ LET a == call.args
           out == fetch_series_observations_from_api(
                      a.series_id, a.start, a.end, a.frequency, call.data)
       IN  call' = FetchCall(a.series_id, a.start, a.end, a.frequency,
                             call.data, out.params, out.ret)
    /\ UNCHANGED <<engine, series_catalog, time_series_data, request,
                   response, session>>

NextFetch == Fetch

SpecFetch == InitFetch /\ [][NextFetch]_vars

\* ------------------------------------------------ claims: processing
Max(a, b) == IF a > b THEN a ELSE b

NormalizeDone == call.fn = "normalize_series" /\ call.ret.kind # "pending"
CorrelationDone ==
    call.fn = "calculate_rolling_correlation" /\ call.ret.kind # "pending"

\* The dates in both argument series, and the value of argument k on a date.
CommonDates == DateSet(call.args[1].rows) \cap DateSet(call.args[2].rows)
ArgValue(k, d) ==
    LET rows == call.args[k].rows
    IN  (CHOOSE r \in {rows[i] : i \in 1..Len(rows)} : r[1] = d)[2]

\* The trailing window of w joined dates that ends at d; it is full when it
\* holds w dates, and it has zero variance when either series takes a single
\* value on it.
WindowDates(d, w) ==
    {e \in CommonDates :
        e <= d /\ Cardinality({f \in CommonDates : e < f /\ f <= d}) < w}
FullWindowEnds(w) ==
    {d \in CommonDates : Cardinality(WindowDates(d, w)) = w}
ZeroVariance(d, w) ==
    \E k \in {1, 2} :
        Cardinality({ArgValue(k, e) : e \in WindowDates(d, w)}) = 1
ZeroVarianceEnds(w) == {d \in FullWindowEnds(w) : ZeroVariance(d, w)}

Ascending(rows) ==
    \A i, j \in 1..Len(rows) : i < j => rows[i][1] < rows[j][1]

C2_InnerJoinOnDate ==
    (CorrelationDone /\ call.ret.kind = "frame")
        => /\ DateSet(call.combined) = CommonDates
           /\ \A i \in 1..Len(call.combined) :
                 /\ call.combined[i][2] = ArgValue(1, call.combined[i][1])
                 /\ call.combined[i][3] = ArgValue(2, call.combined[i][1])
           /\ Ascending(call.combined)
           /\ DateSet(call.ret.value.rows) \subseteq CommonDates
           /\ Ascending(call.ret.value.rows)
           /\ call.window = 2 =>
                \A i \in 1..Len(call.ret.value.rows) :
                    LET d == call.ret.value.rows[i][1]
                        e == CHOOSE e \in WindowDates(d, 2) : e # d
                        dx == RatSub(ArgValue(1, d), ArgValue(1, e))
                        dy == RatSub(ArgValue(2, d), ArgValue(2, e))
                    IN  call.ret.value.rows[i][2][1] = Sign(dx[1]) * Sign(dy[1])

\* C2 reached: a window-2 call that returns a row although a date of A
\* between two joined dates is missing from B, on series with differing values.
C2_Witness ==
    /\ CorrelationDone
    /\ call.ret.kind = "frame"
    /\ call.window = 2
    /\ Len(call.ret.value.rows) >= 1
    /\ \E d \in DateSet(call.args[1].rows) \ CommonDates :
          \E e, f \in CommonDates : e < d /\ d < f
    /\ \E i \in 1..Len(call.combined) :
          call.combined[i][2] # call.combined[i][3]

\* C3: for every non-empty series S with a non-zero first value v0,
\* normalize_series(S, 'index_100') returns a series of the same length whose
\* i-th value is S[i].value / v0 * 100; its first value is exactly 100 and
\* all pairwise ratios of S are preserved.
C3_IndexTo100 ==
    (/\ NormalizeDone
     /\ call.method = "index_100"
     /\ ToDatetimeOk(call.args[1])
     /\ Len(call.args[1].rows) > 0
     /\ call.args[1].rows[1][2][1] # 0)
        => LET S == call.args[1].rows
               R == call.ret.value.rows
               v0 == S[1][2]
           IN  /\ call.ret.kind = "frame"
               /\ Len(R) = Len(S)
               /\ R[1][2] = RatInt(100)
               /\ \A i \in 1..Len(S) :
                     R[i][2][1] * v0[1] * S[i][2][2]
                         = 100 * S[i][2][1] * v0[2] * R[i][2][2]
               /\ \A i, j \in 1..Len(S) :
                     R[i][2][1] * R[j][2][2] * S[j][2][1] * S[i][2][2]
                         = R[j][2][1] * R[i][2][2] * S[i][2][1] * S[j][2][2]

\* C3 reached: a series of MaxDate observations with base -1 whose last
\* value 2 is returned as -200.
C3_Witness ==
    /\ NormalizeDone
    /\ call.method = "index_100"
    /\ call.ret.kind = "frame"
    /\ Len(call.args[1].rows) = MaxDate
    /\ call.args[1].rows[1][2] = RatInt(-1)
    /\ call.ret.value.rows[MaxDate][2] = RatInt(-200)

C10_InputsUntouchedResultFresh ==
    (NormalizeDone \/ CorrelationDone)
        => /\ call.args_after = call.args
           /\ call.ret_is_arg = 0

\* --------------------------------------------------- claims: requests
Stored(name) == {r \in time_series_data : r.series_name = name}

\* The body lists exactly the stored observations of `name`, dates formatted,
\* values untouched, in ascending date order.
BodyIsStored(body, name) ==
    /\ Len(body) = Cardinality(Stored(name))
    /\ \A r \in Stored(name) :
          \E i \in 1..Len(body) :
              /\ body[i] = [date |-> FormatDate(r.observation_date),
                            value |-> r.value]
              /\ i = Cardinality({q \in Stored(name) :
                                    q.observation_date <= r.observation_date})

DataRequest == request.route = "get_dataset_data"
CorrelationRequest == request.route = "get_rolling_correlation"

\* C4 as stated: when the first value of the series is 0, normalize with
\* method index_100 fails: normalize_series does not return a series and the
\* data request is not answered successfully.
C4_ZeroBaseFails ==
    (/\ call.fn = "normalize_series"
     /\ call.ret.kind # "pending"
     /\ call.method = "index_100"
     /\ Len(call.args[1].rows) > 0
     /\ RatIsZero(call.args[1].rows[1][2]))
        => /\ call.ret.kind # "frame"
           /\ DataRequest => response.status # 200

\* C5: for every method token other than 'index_100' normalization is a
\* pass-through: unless the database fails, a data request for a stored
\* series that carries such a token is answered 200 with the stored series,
\* every date and value unchanged.
C5_UnknownMethodPassThrough ==
    (/\ DataRequest
     /\ engine = "ok"
     /\ request.transform # <<>>
     /\ request.transform[1] # "index_100"
     /\ Stored(request.dataset_name) # {}
     /\ response.error # "Error fetching data from database")
        => /\ response.status = 200
           /\ BodyIsStored(response.body, request.dataset_name)

\* C5 reached: a request with transform=zscore went through normalize_series
\* and is answered 200 with all MaxDate stored observations.
C5_Witness ==
    /\ DataRequest
    /\ request.transform = <<"zscore">>
    /\ call.fn = "normalize_series"
    /\ response.status = 200
    /\ Len(response.body) = MaxDate
    /\ response.body[1].value = RatInt(2)

\* C6 as stated: when the two series share no date, rolling correlation fails
\* with an error instead of returning a (possibly empty) result.
C6_DisjointDatesFail ==
    (/\ CorrelationDone
     /\ call.args[1].index = "datetime"
     /\ call.args[2].index = "datetime"
     /\ CommonDates = {})
        => /\ call.ret.kind # "frame"
           /\ CorrelationRequest => response.status # 200

\* C7 as stated: whenever the rolling-correlation output is empty, the
\* correlation request handler answers with an error, never with a
\* successful empty list.
C7_EmptyOutputIsAnError ==
    (/\ CorrelationRequest
     /\ CorrelationDone
     /\ call.ret.kind = "frame"
     /\ Len(call.ret.value.rows) = 0)
        => response.status >= 400

\* The window tokens of the requests that are no integer greater than 1.
InvalidWindowTokens == {<<"2", ".", "5">>, <<"-", "1">>, <<"0">>, <<"1">>}
InvalidWindowRequest ==
    CorrelationRequest /\ request.window # <<>>
        /\ request.window[1] \in InvalidWindowTokens
WindowErrors ==
    {"Invalid window size parameter. Must be an integer.",
     "Window size must be a positive integer greater than 1"}

\* C8 as stated, granting it a working database: for every window value
\* w <= 1 and every non-integer window token, rolling correlation is rejected
\* with an invalid-argument error (400) and no correlation is computed or
\* returned.
C8_InvalidWindowIs400 ==
    (/\ InvalidWindowRequest
     /\ engine = "ok"
     /\ response.error # "Error fetching data from database for correlation")
        => /\ response.status = 400
           /\ call.fn = "none"

\* C8 amended: for every window value w <= 1 and every non-integer window
\* token, no correlation is computed or returned and the request is answered
\* with an error; the error is the invalid-window 400 whenever the earlier
\* checks pass (engine available, series1 and series2 given, no database
\* error, both series have stored data), and the earlier check's 500, 400 or
\* 404 otherwise.
C8_InvalidWindowNeverComputed ==
    InvalidWindowRequest
        => /\ call.fn = "none"
           /\ response.status \in {400, 404, 500}
           /\ response.body = <<>>
           /\ (/\ engine = "ok"
               /\ response.error
                    # "Error fetching data from database for correlation"
               /\ request.series1 # <<>> /\ Stored(request.series1[1]) # {}
               /\ request.series2 # <<>> /\ Stored(request.series2[1]) # {})
                 => /\ response.status = 400
                    /\ response.error \in WindowErrors

\* C8 reached: window=1 on two fully stored series is answered with the
\* invalid-window 400.
C8_Witness ==
    /\ InvalidWindowRequest
    /\ request.window = <<<<"1">>>>
    /\ request.series1 = <<"A">>
    /\ request.series2 = <<"B">>
    /\ Cardinality(Stored("A") \cup Stored("B")) = 2 * MaxDate
    /\ response.status = 400
    /\ response.error = "Window size must be a positive integer greater than 1"

\* ------------------------------------------ claims: processing, continued
\* C11: the result of normalize_series has the same length and the same
\* dates in the same order as its input, whatever the method; only values
\* differ.  (A call on an empty series with index_100 raises and has no
\* result.)
C11_SameDatesSameLength ==
    NormalizeDone
        => /\ call.ret.kind \in {"frame", "raise"}
           /\ call.ret.kind = "raise" =>
                 (call.method = "index_100" /\ Len(call.args[1].rows) = 0)
           /\ call.ret.kind = "frame" =>
                 /\ Len(call.ret.value.rows) = Len(call.args[1].rows)
                 /\ \A i \in 1..Len(call.args[1].rows) :
                       call.ret.value.rows[i][1] = call.args[1].rows[i][1]

\* C11 reached: an index_100 call on MaxDate observations that changes a
\* value.
C11_Witness ==
    /\ NormalizeDone
    /\ call.method = "index_100"
    /\ call.ret.kind = "frame"
    /\ Len(call.args[1].rows) = MaxDate
    /\ call.ret.value.rows[MaxDate][2] # call.args[1].rows[MaxDate][2]

\* C12 as stated: normalize applied to an empty series fails with an error,
\* for every method token.
C12_EmptyInputFails ==
    (/\ NormalizeDone
     /\ call.args[1].index = "datetime"
     /\ Len(call.args[1].rows) = 0)
        => call.ret.kind = "raise"

\* C13: rolling correlation is symmetric in its arguments: the call with the
\* two series swapped returns the same dates and the same coefficient at
\* each of them.
C13_CorrelationSymmetric ==
    CorrelationDone
        => LET swapped == calculate_rolling_correlation(
                              call.args[2], call.args[1], call.window)
           IN  /\ swapped.ret.kind = call.ret.kind
               /\ swapped.ret.value = call.ret.value

\* C13 reached: a call on two different series over a window of 3 whose
\* coefficient is neither 0 nor +-1.
C13_Witness ==
    /\ CorrelationDone
    /\ call.ret.kind = "frame"
    /\ call.window = 3
    /\ call.args[1] # call.args[2]
    /\ Len(call.ret.value.rows) >= 1
    /\ call.ret.value.rows[1][2][2] \notin {RatInt(0), RatInt(1)}

\* ------------------------------------------------ claims: resampling
FetchDone ==
    call.fn = "fetch_series_observations_from_api" /\ call.ret.kind # "pending"

\* The end boundary of the period of day d of 2020 under a frequency token
\* (1 January 2020 is a Wednesday, weeks end on Sunday); the days of the
\* model lie in January.
PeriodEnd(d, rule) ==
    CASE rule = "d" -> d
      [] rule = "w" -> d + ((5 - d) % 7)
      [] rule = "m" -> 31
      [] rule = "q" -> 91
      [] rule = "a" -> 366

\* The observations the program received, as <<date, number>> pairs.
Received == DropMissing(call.data.observations)

LoaderDone == call.fn = "load_all_datasets_from_files" /\ call.file_name # ""

Catalogued(name) == \E c \in series_catalog : c.name = name

\* The observation rows of the file of `name` in the data directory.
FileRows(name) ==
    LET csv == call.files[name]
    IN  {[series_name |-> name, observation_date |-> csv.rows[i][1],
          value |-> csv.rows[i][2]] : i \in 1..Len(csv.rows)}

\* C15: after any sequence of loads, including loads that fail part-way, a
\* catalogued series has exactly the observation rows of its file in
\* time_series_data and a series that is not catalogued has none (the two
\* inserts commit together or not at all); and a load of a series that is
\* already catalogued leaves both tables as it found them.
C15_CatalogAndDataTogether ==
    call.fn = "load_all_datasets_from_files"
        => /\ \A n \in Names :
                 IF Catalogued(n)
                 THEN Stored(n) = FileRows(n) /\ FileRows(n) # {}
                 ELSE Stored(n) = {}
           /\ \A r \in time_series_data : r.series_name \in Names
           /\ \A c \in series_catalog : c.file_name = c.name \o ".csv"
           /\ (/\ LoaderDone
               /\ \E c \in call.before.series_catalog :
                     c.name = call.file_name)
                 => /\ series_catalog = call.before.series_catalog
                    /\ time_series_data = call.before.time_series_data

\* C15 reached: with one series loaded, the load of another file with
\* observations failed at the catalog insert and left nothing behind.
C15_Witness ==
    /\ LoaderDone
    /\ call.fail_at = "insert_catalog"
    /\ FileRows(call.file_name) # {}
    /\ ~Catalogued(call.file_name)
    /\ \E n \in Names : Catalogued(n) /\ Cardinality(Stored(n)) = MaxDate

\* C15 reached, second case: a load of an already catalogued series.
C15_SkipWitness ==
    /\ LoaderDone
    /\ call.fail_at = "none"
    /\ \E c \in call.before.series_catalog : c.name = call.file_name

\* ------------------------------------------------ claims: handlers
\* C16: get_rolling_correlation checks in a fixed order: engine available
\* (else 500), series1 and series2 both given (else 400, no session opened),
\* both series have stored data (else 404), window an integer greater than 1
\* (else 400).  So an invalid window with a series that has no data is
\* answered 404, and the correlation is computed only when all four checks
\* pass.  (A database error while the data is read is answered 500.)
C16_ChecksInFixedOrder ==
    CorrelationRequest
        => LET given == request.series1 # <<>> /\ request.series2 # <<>>
               has_data == /\ Stored(request.series1[1]) # {}
                           /\ Stored(request.series2[1]) # {}
               window_ok == \/ request.window = <<>>
                            \/ request.window[1] \notin InvalidWindowTokens
               db_error == response.error =
                   "Error fetching data from database for correlation"
               refused(status, errors, opened) ==
                   /\ response.status = status
                   /\ response.error \in errors
                   /\ session.opened = opened
                   /\ call.fn = "none"
           IN  IF engine = "none"
               THEN refused(500, {"Database connection failed"}, 0)
               ELSE IF ~given
               THEN refused(400,
                        {"Missing required parameters: series1 and series2"}, 0)
               ELSE IF db_error
               THEN refused(500, {response.error}, 1)
               ELSE IF ~has_data
               THEN refused(404, {"Data not found for one or both datasets"}, 1)
               ELSE IF ~window_ok
               THEN refused(400, WindowErrors, 1)
               ELSE /\ call.fn = "calculate_rolling_correlation"
                    /\ call.args[1].rows = SelectSeries(request.series1[1])
                    /\ call.args[2].rows = SelectSeries(request.series2[1])

\* C16 reached: an invalid window and a series without data, the other series
\* fully stored, answered 404.
C16_Witness ==
    /\ InvalidWindowRequest
    /\ engine = "ok"
    /\ request.series1 # <<>> /\ request.series2 # <<>>
    /\ Stored(request.series1[1]) = {}
    /\ Cardinality(Stored(request.series2[1])) = MaxDate
    /\ response.status = 404

\* C17: in every handler a database session that is opened is closed exactly
\* once before the handler returns, on every return path; each handler opens
\* one session at most, none when the engine is unavailable and none when
\* get_rolling_correlation lacks series1 or series2, and one otherwise.
C17_SessionClosedExactlyOnce ==
    /\ session.closed = session.opened
    /\ session.opened \in {0, 1}
    /\ engine = "none" => session.opened = 0
    /\ (~Idle /\ engine = "ok")
          => (session.opened = 0 <=>
                 (CorrelationRequest
                     /\ (request.series1 = <<>> \/ request.series2 = <<>>)))

\* C17 reached: a handler that left on a database exception after it had
\* opened its session.
C17_Witness ==
    /\ CorrelationRequest
    /\ response.status = 500
    /\ response.error = "Error fetching data from database for correlation"
    /\ session.opened = 1
    /\ session.closed = 1

====
